---- MODULE Spec2Model ----
(***************************************************************************)
(* Model of the savings-plan engine of src/utils/calculation.ts:           *)
(* runSimulationPeriod (month stepper + segment simulator),                *)
(* solveRequiredDeposit (binary-search deposit solver) and                 *)
(* calculateSavingsPlan (plan orchestrator).                               *)
(*                                                                         *)
(* Numbers.  The program computes in IEEE doubles.  Here every money       *)
(* amount is a fixed-point integer counting 1/Scale currency units, every  *)
(* rate and ratio is a fixed-point integer counting 1/RateDen, and every   *)
(* product/quotient is truncated to that grid (MulDiv).  The deposits the  *)
(* binary search tries are kept exactly, as integer multiples of           *)
(* maxDepositCap / 2^20 (the "grid"), and converted to money by            *)
(* GridToMoney.                                                            *)
(***************************************************************************)
EXTENDS Integers, Sequences, FiniteSets, TLC

\* ------------------------------------------------------------------ bounds
\* largest month offset an input event may have
MaxOffset == 2
\* largest number of input events
MaxEvents == 2

\* ------------------------------------------------------- number model
\* money is counted in 1/Scale currency units
Scale == 64
\* rates, ratios and factors are counted in 1/RateDen
RateDen == 10000000

Abs(x) == IF x < 0 THEN -x ELSE x
Sgn(x) == IF x < 0 THEN -1 ELSE 1
Max2(a, b) == IF a >= b THEN a ELSE b

\* the number of bits of the multiplier taken per step of MulDivMod: the largest
\* digit base B among 256, 16, 2 for which (2 * B - 1) * c stays below 2^31
DigitBase(c) == IF c < 4194304 THEN 256 ELSE IF c < 67108864 THEN 16 ELSE 2

\* one digit d of the multiplier: from h = <<q, r>> with a * m = q * c + r to the
\* pair for a * (B * m + d)
MulDivStep(h, a, d, c, B) ==
  <<B * h[1] + ((B * h[2] + d * a) \div c), (B * h[2] + d * a) % c>>

\* <<q, r>> with a * b = q * c + r and 0 <= r < c, for 0 <= a < c and b >= 0,
\* computed digit by digit (base B) so that no intermediate value overflows
RECURSIVE MulDivMod(_, _, _, _)
MulDivMod(a, b, c, B) ==
  IF b = 0 THEN <<0, 0>>
  ELSE MulDivStep(MulDivMod(a, b \div B, c, B), a, b % B, c, B)

\* floor(a * b / c) and the remainder, for a, b >= 0 and c > 0
WideDivMod(a, b, c) ==
  LET ra == a % c
      rb == b % c
      lo == IF ra <= rb THEN ra ELSE rb
      hi == IF ra <= rb THEN rb ELSE ra
      qr == MulDivMod(hi, lo, c, DigitBase(c))
  IN  <<(a \div c) * b + ra * (b \div c) + qr[1], qr[2]>>

\* a * b / c truncated toward zero (c > 0): the fixed-point product or quotient
MulDiv(a, b, c) ==
  IF a = 0 \/ b = 0 THEN 0
  ELSE Sgn(a) * Sgn(b) * WideDivMod(Abs(a), Abs(b), c)[1]

\* x * (1 + rate), rate in 1/RateDen
Grow(x, rate) == x + MulDiv(x, rate, RateDen)

\* ----------------------------------------------------------------- dates
\* A Date is the local calendar date of a JavaScript Date: year, month (0 .. 11, as
\* getMonth) and day of the month.
Date(y, m, d) == [year |-> y, month |-> m, day |-> d]

IsLeapYear(y) == (y % 4 = 0 /\ y % 100 # 0) \/ y % 400 = 0

DaysInMonth(y, m) ==
  IF m = 1 THEN (IF IsLeapYear(y) THEN 29 ELSE 28)
  ELSE IF m \in {3, 5, 8, 10} THEN 30 ELSE 31

\* Date normalisation of a day past the end of month m of year y: the overflow runs
\* into the following month
NormalizeDate(y, m, d) ==
  IF d <= DaysInMonth(y, m) THEN Date(y, m, d)
  ELSE IF m = 11 THEN Date(y + 1, 0, d - DaysInMonth(y, m))
  ELSE Date(y, m + 1, d - DaysInMonth(y, m))

\* Date.prototype.setMonth with a month number >= 0: the year advances by the whole
\* years, the day of the month is kept and then normalised
setMonth(date, month) ==
  NormalizeDate(date.year + (month \div 12), month % 12, date.day)

\* lines 4-8
addMonths(date, months) == setMonth(date, date.month + months)

\* lines 10-12: the label shows the month and the year of the date, not the day
formatDate(date) == [year |-> date.year, month |-> date.month]

\* --------------------------------------------------------------- helpers
\* getMonthlyRate: Math.pow(1 + annualRate / 100, 1 / 12) - 1, in 1/RateDen.
\* The 12th root is tabulated (rounded to 1/RateDen) for the annual rates
\* (in percent) that the inputs use.
MonthlyRateTable ==
  (0 :> 0) @@ (2 :> 16516) @@ (7 :> 56541) @@ (12 :> 94888)

getMonthlyRate(annualRate) == MonthlyRateTable[annualRate]

\* Math.pow(1 + rate, n) in 1/RateDen, n >= 0
RECURSIVE PowFactor(_, _)
PowFactor(rate, n) == IF n = 0 THEN RateDen ELSE Grow(PowFactor(rate, n - 1), rate)

\* an optional record field: {} is undefined, {v} is the value v
Undefined == {}
Some(v) == {v}
\* x || 0
OrZero(s) == IF s = {} THEN 0 ELSE CHOOSE v \in s : TRUE

\* the failure tolerance "balance < -1" of the simulator and of the result, in money
Tolerance == -1

ToMoney(units) == units * Scale

\* ------------------------------------------------- runSimulationPeriod
\* totalMonthsPassed counted from the start of the run, not of the plan
totalMonthsPassedInSegment(startMonthIndex, i) == i

\* line 76: the number of months the target is indexed over, in iteration i of a
\* run that started at startMonthIndex: the month's index in the whole plan
totalMonthsPassed(startMonthIndex, i) == startMonthIndex + i

\* lines 87-88: max(0, 1 - basis / balance), or 0 when balance <= 0, in 1/RateDen
ProfitRatio(basis, balance) ==
  IF balance > 0 THEN Max2(0, RateDen - MulDiv(basis, RateDen, balance)) ELSE 0

\* lines 90-94: Gross = Net / (1 - effectiveTaxRate)
GrossNeeded(targetNetNominal, realProfitRatio, taxPercent) ==
  MulDiv(targetNetNominal, RateDen, RateDen - MulDiv(realProfitRatio, taxPercent, 100))

\* ReduceBasis leaving the basis as it was
ReduceBasisNone(basis, grossNeeded, pre) == basis

\* lines 108-115: a cost basis after a withdrawal of grossNeeded from balance pre
ReduceBasis(basis, grossNeeded, pre) ==
  IF pre > 0 THEN MulDiv(basis, pre - grossNeeded, pre) ELSE 0

\* lines 96-121: the running month state w after a withdrawal of grossNeeded (gross)
\* for the target targetNetNominal (net)
ApplyWithdrawal(w, id, targetNetNominal, grossNeeded, realProfitRatio, nominalProfitRatio) ==
  [ balance |-> w.balance - grossNeeded,
    costBasis |-> ReduceBasis(w.costBasis, grossNeeded, (w.balance - grossNeeded) + grossNeeded),
    nominalCostBasis |->
      ReduceBasis(w.nominalCostBasis, grossNeeded, (w.balance - grossNeeded) + grossNeeded),
    failed |-> w.failed \/ (w.balance <= 0 /\ grossNeeded > 0),
    eventRef |-> Some(id),
    gross |-> w.gross + grossNeeded,
    net |-> w.net + targetNetNominal,
    tax |-> w.tax + (grossNeeded - targetNetNominal),
    realGain |-> w.realGain + MulDiv(grossNeeded, realProfitRatio, RateDen),
    nominalGain |-> w.nominalGain + MulDiv(grossNeeded, nominalProfitRatio, RateDen) ]

\* WithdrawTarget taxing the nominal profit ratio
WithdrawTargetNominal(w, id, targetNetNominal, taxPercent) ==
  ApplyWithdrawal(w, id, targetNetNominal,
                  GrossNeeded(targetNetNominal, ProfitRatio(w.nominalCostBasis, w.balance),
                              taxPercent),
                  ProfitRatio(w.costBasis, w.balance),
                  ProfitRatio(w.nominalCostBasis, w.balance))

\* lines 87-94 for a target already indexed (targetNetNominal)
WithdrawTarget(w, id, targetNetNominal, taxPercent) ==
  ApplyWithdrawal(w, id, targetNetNominal,
                  GrossNeeded(targetNetNominal, ProfitRatio(w.costBasis, w.balance), taxPercent),
                  ProfitRatio(w.costBasis, w.balance),
                  ProfitRatio(w.nominalCostBasis, w.balance))

\* lines 71-122: one event of the month withdrawn from the running month state w
\* (balance, cost bases, failed flag and the month's accumulators)
WithdrawEvent(w, event, monthsPassed, monthlyInflationRate, taxPercent) ==
  WithdrawTarget(w, event.id,
                 MulDiv(ToMoney(event.targetAmount),
                        PowFactor(monthlyInflationRate, monthsPassed), RateDen),
                 taxPercent)

\* WithdrawAll taking the month's events last first
RECURSIVE WithdrawAllLastFirst(_, _, _, _, _)
WithdrawAllLastFirst(w, monthEvents, monthsPassed, monthlyInflationRate, taxPercent) ==
  IF monthEvents = <<>> THEN w
  ELSE WithdrawAllLastFirst(
         WithdrawEvent(w, monthEvents[Len(monthEvents)], monthsPassed,
                       monthlyInflationRate, taxPercent),
         SubSeq(monthEvents, 1, Len(monthEvents) - 1), monthsPassed,
         monthlyInflationRate, taxPercent)

\* the for-of loop of lines 71-122 over the month's events, in list order
RECURSIVE WithdrawAll(_, _, _, _, _)
WithdrawAll(w, monthEvents, monthsPassed, monthlyInflationRate, taxPercent) ==
  IF monthEvents = <<>> THEN w
  ELSE WithdrawAll(
         WithdrawEvent(w, Head(monthEvents), monthsPassed, monthlyInflationRate, taxPercent),
         Tail(monthEvents), monthsPassed, monthlyInflationRate, taxPercent)

\* FailedUpdate with "<= -1" for "< -1"
FailedUpdateExclusive(failed, balance) == failed \/ balance <= ToMoney(Tolerance)

\* the end-of-month check of lines 141-143
FailedUpdate(failed, balance) == failed \/ balance < ToMoney(Tolerance)

\* MonthRecord with taxPaid always present
MonthRecordTaxAlways(currentMonthIndex, monthlyDeposit, balanceStart, preWithdrawalBalance, w) ==
  [ monthIndex |-> currentMonthIndex,
    deposit |-> monthlyDeposit,
    balanceStart |-> balanceStart,
    balanceEnd |-> w.balance,
    costBasis |-> w.costBasis,
    eventOccurred |-> w.eventRef,
    withdrawalGross |-> IF w.gross > 0 THEN Some(w.gross) ELSE Undefined,
    withdrawalNet |-> IF w.net > 0 THEN Some(w.net) ELSE Undefined,
    taxPaid |-> Some(w.tax),
    preWithdrawalBalance |-> IF w.gross > 0 THEN Some(preWithdrawalBalance) ELSE Undefined,
    realGain |-> IF w.gross > 0 THEN Some(w.realGain) ELSE Undefined,
    nominalGain |-> IF w.gross > 0 THEN Some(w.nominalGain) ELSE Undefined ]

\* lines 125-139: the month's record, from the month state w after the withdrawals
MonthRecord(currentMonthIndex, monthlyDeposit, balanceStart, preWithdrawalBalance, w) ==
  [ monthIndex |-> currentMonthIndex,
    deposit |-> monthlyDeposit,
    balanceStart |-> balanceStart,
    balanceEnd |-> w.balance,
    costBasis |-> w.costBasis,
    eventOccurred |-> w.eventRef,
    withdrawalGross |-> IF w.gross > 0 THEN Some(w.gross) ELSE Undefined,
    withdrawalNet |-> IF w.net > 0 THEN Some(w.net) ELSE Undefined,
    taxPaid |-> IF w.tax > 0 THEN Some(w.tax) ELSE Undefined,
    preWithdrawalBalance |-> IF w.gross > 0 THEN Some(preWithdrawalBalance) ELSE Undefined,
    realGain |-> IF w.gross > 0 THEN Some(w.realGain) ELSE Undefined,
    nominalGain |-> IF w.gross > 0 THEN Some(w.nominalGain) ELSE Undefined ]

\* lines 125-143: the loop state after the month, from the month state w after the
\* withdrawals. failedTrace keeps the value of `failed` at the end of each iteration so
\* far (to state properties of the flag's history).
MonthEnd(st, currentMonthIndex, monthlyDeposit, preWithdrawalBalance, w) ==
  [ balance |-> w.balance, costBasis |-> w.costBasis,
    nominalCostBasis |-> w.nominalCostBasis,
    schedule |-> Append(st.schedule,
                        MonthRecord(currentMonthIndex, monthlyDeposit, st.balance,
                                    preWithdrawalBalance, w)),
    failed |-> FailedUpdate(w.failed, w.balance),
    failedTrace |-> Append(st.failedTrace, FailedUpdate(w.failed, w.balance)) ]

\* MonthStart with growth and indexation applied before the deposit
MonthStartGrowthFirst(st, monthlyDeposit, monthlyReturnRate, monthlyInflationRate) ==
  [ balance |-> Grow(st.balance, monthlyReturnRate) + monthlyDeposit,
    costBasis |-> Grow(st.costBasis, monthlyInflationRate) + monthlyDeposit,
    nominalCostBasis |-> st.nominalCostBasis + monthlyDeposit,
    failed |-> st.failed, eventRef |-> Undefined,
    gross |-> 0, net |-> 0, tax |-> 0, realGain |-> 0, nominalGain |-> 0 ]

\* lines 48-66: the month state before the withdrawals: deposit added, balance grown,
\* real cost basis indexed, accumulators at 0
MonthStart(st, monthlyDeposit, monthlyReturnRate, monthlyInflationRate) ==
  [ balance |-> Grow(st.balance + monthlyDeposit, monthlyReturnRate),
    costBasis |-> Grow(st.costBasis + monthlyDeposit, monthlyInflationRate),
    nominalCostBasis |-> st.nominalCostBasis + monthlyDeposit,
    failed |-> st.failed, eventRef |-> Undefined,
    gross |-> 0, net |-> 0, tax |-> 0, realGain |-> 0, nominalGain |-> 0 ]

\* lines 60-123: the withdrawals of the month, if the map has the month
MonthWithdrawals(w0, startMonthIndex, i, params, eventsInPeriod) ==
  IF (startMonthIndex + i) \in DOMAIN eventsInPeriod
  THEN WithdrawAll(w0, eventsInPeriod[startMonthIndex + i],
                   totalMonthsPassed(startMonthIndex, i),
                   getMonthlyRate(params.annualInflation), params.capitalGainsTax)
  ELSE w0

\* the month from the state w0 after deposit and growth on
MonthFrom(st, w0, startMonthIndex, i, monthlyDeposit, params, eventsInPeriod) ==
  MonthEnd(st, startMonthIndex + i, monthlyDeposit,
           IF (startMonthIndex + i) \in DOMAIN eventsInPeriod THEN w0.balance ELSE 0,
           MonthWithdrawals(w0, startMonthIndex, i, params, eventsInPeriod))

\* lines 43-144: the body of the month loop, iteration i, on the loop state st:
\* balance, costBasis, nominalCostBasis, schedule, failed
SimMonth(st, startMonthIndex, i, monthlyDeposit, params, eventsInPeriod) ==
  MonthFrom(st,
            MonthStart(st, monthlyDeposit, getMonthlyRate(params.annualReturn),
                       getMonthlyRate(params.annualInflation)),
            startMonthIndex, i, monthlyDeposit, params, eventsInPeriod)

\* the loop of line 43: iterations 0 .. n-1 applied to the starting state
RECURSIVE SimLoop(_, _, _, _, _, _)
SimLoop(st0, startMonthIndex, n, monthlyDeposit, params, eventsInPeriod) ==
  IF n <= 0 THEN st0
  ELSE SimMonth(SimLoop(st0, startMonthIndex, n - 1, monthlyDeposit, params, eventsInPeriod),
                startMonthIndex, n - 1, monthlyDeposit, params, eventsInPeriod)

\* SimResult returning the balance as the real cost basis
SimResultBasisReset(st) ==
  [ schedule |-> st.schedule, finalBalance |-> st.balance,
    finalCostBasis |-> st.balance,
    finalNominalCostBasis |-> st.nominalCostBasis,
    failed |-> st.failed, failedTrace |-> st.failedTrace ]

\* line 146: what the run returns, from the loop state at the loop's exit
SimResult(st) ==
  [ schedule |-> st.schedule, finalBalance |-> st.balance,
    finalCostBasis |-> st.costBasis,
    finalNominalCostBasis |-> st.nominalCostBasis,
    failed |-> st.failed, failedTrace |-> st.failedTrace ]

runSimulationPeriod(startBalance, startCostBasis, startNominalCostBasis, startMonthIndex, durationMonths, monthlyDeposit, params, eventsInPeriod) ==
  SimResult(SimLoop([ balance |-> startBalance, costBasis |-> startCostBasis,
                      nominalCostBasis |-> startNominalCostBasis,
                      schedule |-> <<>>, failed |-> FALSE, failedTrace |-> <<>> ],
                    startMonthIndex, durationMonths, monthlyDeposit, params,
                    eventsInPeriod))

\* lines 43-45 and 127: the date fields of the records a run of durationMonths months
\* from startDate pushes, in order
SegmentDates(startDate, durationMonths) ==
  [i \in 1 .. durationMonths |-> formatDate(addMonths(startDate, i - 1))]

\* ------------------------------------------------ solveRequiredDeposit
maxDepositCap == 1000000
\* the number of binary-search iterations (line 172)
SearchIterations == 20
\* the rounding step of the result (line 205)
RoundTo == 10

\* low, high, result and mid are kept as integer multiples of
\* maxDepositCap / GridSteps: exact, since every midpoint of the 20 halvings of
\* [0, maxDepositCap] is such a multiple
GridSteps == 2 ^ SearchIterations

\* the deposit (money) that grid index k stands for
GridToMoney(k) == MulDiv(ToMoney(maxDepositCap), k, GridSteps)

RECURSIVE MaxOffsetOf(_)
MaxOffsetOf(evs) ==
  IF Len(evs) = 1 THEN Head(evs).monthOffset
  ELSE Max2(Head(evs).monthOffset, MaxOffsetOf(Tail(evs)))

\* the Map<number, SavingsEvent[]> built by lines 178-182 and 232-236: each month
\* offset that occurs, to the events at that offset in list order
GroupByMonth(evs) ==
  [m \in {evs[i].monthOffset : i \in DOMAIN evs} |->
     SelectSeq(evs, LAMBDA e : e.monthOffset = m)]

\* the solver's loop state at line 172: low, high, result and the counter i
SearchStart == [low |-> 0, high |-> GridSteps, result |-> GridSteps, i |-> 0]

\* MidSim looking at the nearest goal month only, not at all remaining goals
MidSimNearestOnly(s, startBalance, startCostBasis, startNominalCostBasis, startMonthIndex, evs, params) ==
  runSimulationPeriod(startBalance, startCostBasis, startNominalCostBasis,
                      startMonthIndex, Head(evs).monthOffset - startMonthIndex + 1,
                      GridToMoney((s.low + s.high) \div 2), params,
                      GroupByMonth(SelectSeq(evs, LAMBDA e : e.monthOffset = Head(evs).monthOffset)))

\* lines 173-194: the simulation of the midpoint deposit over the whole lookahead span
MidSim(s, startBalance, startCostBasis, startNominalCostBasis, startMonthIndex, evs, params) ==
  runSimulationPeriod(startBalance, startCostBasis, startNominalCostBasis,
                      startMonthIndex, MaxOffsetOf(evs) - startMonthIndex + 1,
                      GridToMoney((s.low + s.high) \div 2), params, GroupByMonth(evs))

\* SearchUpdate with the two branches of lines 196-201 exchanged
SearchUpdateInverted(s, failed) ==
  LET mid == (s.low + s.high) \div 2
  IN  IF failed
      THEN [s EXCEPT !.result = mid, !.high = mid, !.i = @ + 1]
      ELSE [s EXCEPT !.low = mid, !.i = @ + 1]

\* lines 196-201: the bounds after the midpoint's simulation
SearchUpdate(s, failed) ==
  LET mid == (s.low + s.high) \div 2
  IN  IF failed
      THEN [s EXCEPT !.low = mid, !.i = @ + 1]
      ELSE [s EXCEPT !.result = mid, !.high = mid, !.i = @ + 1]

\* lines 172-202: one iteration of the binary search on the loop state s
SearchIter(s, startBalance, startCostBasis, startNominalCostBasis, startMonthIndex, evs, params) ==
  SearchUpdate(s, MidSim(s, startBalance, startCostBasis, startNominalCostBasis,
                         startMonthIndex, evs, params).failed)

\* the for loop of line 172, from loop state s to its exit
RECURSIVE SearchLoop(_, _, _, _, _, _, _)
SearchLoop(s, startBalance, startCostBasis, startNominalCostBasis, startMonthIndex, evs, params) ==
  IF s.i >= SearchIterations THEN s
  ELSE SearchLoop(SearchIter(s, startBalance, startCostBasis, startNominalCostBasis,
                             startMonthIndex, evs, params),
                  startBalance, startCostBasis, startNominalCostBasis, startMonthIndex,
                  evs, params)

\* RoundUp with Math.floor for Math.ceil
RoundDown(resultGrid) ==
  ToMoney(WideDivMod(resultGrid, maxDepositCap, RoundTo * GridSteps)[1] * RoundTo)

\* line 205: Math.ceil(result / 10) * 10 of the grid value, as money
RoundUp(resultGrid) ==
  LET qr == WideDivMod(resultGrid, maxDepositCap, RoundTo * GridSteps)
  IN  ToMoney((qr[1] + (IF qr[2] > 0 THEN 1 ELSE 0)) * RoundTo)

solveRequiredDeposit(startBalance, startCostBasis, startNominalCostBasis, startMonthIndex, evs, params) ==
  IF Len(evs) = 0 THEN 0
  ELSE RoundUp(SearchLoop(SearchStart, startBalance, startCostBasis,
                          startNominalCostBasis, startMonthIndex, evs, params).result)

\* ------------------------------------------------ calculateSavingsPlan
\* line 209: [...events].sort((a, b) => a.monthOffset - b.monthOffset), a stable sort
RECURSIVE InsertSorted(_, _)
InsertSorted(sorted, e) ==
  IF sorted = <<>> THEN <<e>>
  ELSE IF Head(sorted).monthOffset <= e.monthOffset
       THEN <<Head(sorted)>> \o InsertSorted(Tail(sorted), e)
       ELSE <<e>> \o sorted

RECURSIVE SortByOffset(_)
SortByOffset(evs) ==
  IF evs = <<>> THEN <<>>
  ELSE InsertSorted(SortByOffset(SubSeq(evs, 1, Len(evs) - 1)), evs[Len(evs)])

\* line 238: the keys of eventsByMonth in increasing order
RECURSIVE SortedKeys(_)
SortedKeys(S) ==
  IF S = {} THEN <<>>
  ELSE LET m == CHOOSE x \in S : \A y \in S : x <= y
       IN  <<m>> \o SortedKeys(S \ {m})

\* fullSchedule.reduce((acc, m) => acc + f(m), 0), given the sequence of the f(m)
RECURSIVE Reduce(_)
Reduce(values) ==
  IF values = <<>> THEN 0 ELSE Reduce(SubSeq(values, 1, Len(values) - 1)) + values[Len(values)]

\* the value of maxDepositConstraint before the first segment (line 230)
Infinity == -1

\* ------------------------------------------------------------- inputs
Params(ret, infl, tax, capital) ==
  [startDate |-> Date(2024, 0, 1), annualReturn |-> ret, annualInflation |-> infl,
   capitalGainsTax |-> tax, initialCapital |-> capital]

\* p with the start date date
StartingOn(date, p) == [p EXCEPT !.startDate = date]

\* the Parameters records tried (rates in percent, capital in currency units), each
\* with the target amounts (currency units) its events draw from
Scenarios ==
  { [params |-> StartingOn(Date(2023, 0, 31), Params(0, 0, 0, 0)),
     targets |-> {1, 1000000}],
    [params |-> StartingOn(Date(2023, 0, 31), Params(0, 0, 0, 0)),
     targets |-> {1, 1000001}],
    [params |-> StartingOn(Date(2024, 0, 31), Params(7, 2, 25, 0)),
     targets |-> {101, 5000}],
    [params |-> StartingOn(Date(2024, 2, 15), Params(7, 2, 25, 5000)),
     targets |-> {5000}],
    [params |-> StartingOn(Date(2023, 11, 29), Params(2, 7, 10, 100)),
     targets |-> {1000000}] }

\* the event lists over the given targets: the id of an event is its position
EventLists(targets) ==
  LET kinds == [monthOffset : 0 .. MaxOffset, targetAmount : targets]
  IN  UNION { { [i \in 1 .. n |-> [id |-> i, monthOffset |-> f[i].monthOffset,
                                    targetAmount |-> f[i].targetAmount]] :
                f \in [1 .. n -> kinds] } : n \in 0 .. MaxEvents }

NoResult ==
  [success |-> FALSE, schedule |-> <<>>, finalBalance |-> 0, totalDeposited |-> 0,
   totalTaxPaid |-> 0, totalWithdrawnNet |-> 0]

\* -------------------------------------------------------------- state
VARIABLES
  params,                  \* the FinancialParams argument
  events,                  \* the SavingsEvent[] argument
  pc,                      \* position in calculateSavingsPlan
  currentBalance, currentCostBasis, currentNominalCostBasis,
  currentMonth, maxDepositConstraint, fullSchedule,
  dates,                   \* the date field of each record of fullSchedule
  segment,                 \* index into eventMonths of the for-of loop of line 240
  search,                  \* low, high, result, i of the running solveRequiredDeposit
  lastSim,                 \* what the latest runSimulationPeriod call returned
  actualDeposits,          \* the actualDeposit of each segment so far
  requiredDeposits,        \* the requiredDeposit of each segment so far
  segmentFailed,           \* simSegment.failed of each segment so far
  calls,                   \* number of solveRequiredDeposit / runSimulationPeriod calls
  out                      \* the SimulationResult returned

vars == <<params, events, pc, currentBalance, currentCostBasis, currentNominalCostBasis,
          currentMonth, maxDepositConstraint, fullSchedule, dates, segment, search,
          lastSim, actualDeposits, requiredDeposits, segmentFailed, calls, out>>

sortedEvents == SortByOffset(events)
eventsByMonth == GroupByMonth(sortedEvents)
eventMonths == SortedKeys(DOMAIN eventsByMonth)
\* line 243
remainingEvents == SelectSeq(sortedEvents, LAMBDA e : e.monthOffset >= currentMonth)

NoSim ==
  [schedule |-> <<>>, finalBalance |-> 0, finalCostBasis |-> 0,
   finalNominalCostBasis |-> 0, failed |-> FALSE, failedTrace |-> <<>>]

Init ==
  /\ \E sc \in Scenarios : params = sc.params /\ events \in EventLists(sc.targets)
  /\ pc = "start"
  /\ currentBalance = 0 /\ currentCostBasis = 0 /\ currentNominalCostBasis = 0
  /\ currentMonth = 0 /\ maxDepositConstraint = Infinity /\ fullSchedule = <<>>
  /\ dates = <<>>
  /\ segment = 0
  /\ search = [low |-> 0, high |-> 0, result |-> 0, i |-> 0]
  /\ lastSim = NoSim
  /\ actualDeposits = <<>> /\ requiredDeposits = <<>> /\ segmentFailed = <<>>
  /\ calls = [solve |-> 0, sim |-> 0]
  /\ out = NoResult

\* EmptyResult with one month of growth applied to the capital
EmptyResultGrown(p) ==
  [success |-> TRUE, schedule |-> <<>>,
   finalBalance |-> Grow(ToMoney(p.initialCapital), getMonthlyRate(p.annualReturn)),
   totalDeposited |-> 0, totalTaxPaid |-> 0, totalWithdrawnNet |-> 0]

\* lines 214-221: the result returned when there are no events
EmptyResult(p) ==
  [success |-> TRUE, schedule |-> <<>>, finalBalance |-> ToMoney(p.initialCapital),
   totalDeposited |-> 0, totalTaxPaid |-> 0, totalWithdrawnNet |-> 0]

\* lines 212-222: no events
ReturnEmpty ==
  /\ pc = "start"
  /\ Len(sortedEvents) = 0
  /\ out' = EmptyResult(params)
  /\ pc' = "done"
  /\ UNCHANGED <<params, events, currentBalance, currentCostBasis,
                 currentNominalCostBasis, currentMonth, maxDepositConstraint,
                 fullSchedule, dates, segment, search, lastSim, actualDeposits,
                 requiredDeposits, segmentFailed, calls>>

\* lines 224-238: the locals before the segment loop
BeginPlan ==
  /\ pc = "start"
  /\ Len(sortedEvents) # 0
  /\ currentBalance' = ToMoney(params.initialCapital)
  /\ currentCostBasis' = ToMoney(params.initialCapital)
  /\ currentNominalCostBasis' = ToMoney(params.initialCapital)
  /\ currentMonth' = 0
  /\ maxDepositConstraint' = Infinity
  /\ fullSchedule' = <<>>
  /\ dates' = <<>>
  /\ segment' = 1
  /\ pc' = "loop"
  /\ UNCHANGED <<params, events, search, lastSim, actualDeposits,
                 requiredDeposits, segmentFailed, calls, out>>

\* lines 240-253 and 164-169: the next segment calls solveRequiredDeposit
EnterSolve ==
  /\ pc = "loop"
  /\ segment <= Len(eventMonths)
  /\ search' = IF Len(remainingEvents) = 0
                THEN [SearchStart EXCEPT !.i = SearchIterations]
                ELSE SearchStart
  /\ calls' = [calls EXCEPT !.solve = @ + 1]
  /\ pc' = "search"
  /\ UNCHANGED <<params, events, currentBalance, currentCostBasis,
                 currentNominalCostBasis, currentMonth, maxDepositConstraint,
                 fullSchedule, dates, segment, lastSim, actualDeposits, requiredDeposits,
                 segmentFailed, out>>

\* lines 172-202: one iteration of the binary search
SearchStep ==
  /\ pc = "search"
  /\ search.i < SearchIterations
  /\ lastSim' = MidSim(search, currentBalance, currentCostBasis,
                       currentNominalCostBasis, currentMonth, remainingEvents, params)
  /\ search' = SearchUpdate(search, lastSim'.failed)
  /\ calls' = [calls EXCEPT !.sim = @ + 1]
  /\ UNCHANGED <<params, events, pc, currentBalance, currentCostBasis,
                 currentNominalCostBasis, currentMonth, maxDepositConstraint,
                 fullSchedule, dates, segment, actualDeposits, requiredDeposits,
                 segmentFailed, out>>

\* ApplyConstraint with the comparison of line 258 reversed
ApplyConstraintReversed(requiredDeposit, constraint) ==
  IF constraint # Infinity /\ requiredDeposit < constraint
  THEN constraint ELSE requiredDeposit

\* lines 255-262: the "never upwards" constraint
ApplyConstraint(requiredDeposit, constraint) ==
  IF constraint # Infinity /\ requiredDeposit > constraint
  THEN constraint ELSE requiredDeposit

\* NextSegmentStart without the "+ 1" of line 286
NextSegmentStartAtEvent(nextEventMonth) == nextEventMonth

\* line 286: the month the next segment starts at
NextSegmentStart(nextEventMonth) == nextEventMonth + 1

\* lines 204-205 and 255-286: solveRequiredDeposit returns, the deposit is capped, the
\* segment is simulated and appended
RunSegment ==
  /\ pc = "search"
  /\ search.i = SearchIterations
  /\ requiredDeposits' =
       Append(requiredDeposits,
              IF Len(remainingEvents) = 0 THEN 0 ELSE RoundUp(search.result))
  /\ maxDepositConstraint' =
       ApplyConstraint(requiredDeposits'[Len(requiredDeposits')], maxDepositConstraint)
  /\ actualDeposits' = Append(actualDeposits, maxDepositConstraint')
  /\ lastSim' = runSimulationPeriod(currentBalance, currentCostBasis,
                  currentNominalCostBasis, currentMonth,
                  eventMonths[segment] - currentMonth + 1, maxDepositConstraint',
                  params, (eventMonths[segment] :> eventsByMonth[eventMonths[segment]]))
  /\ segmentFailed' = Append(segmentFailed, lastSim'.failed)
  /\ fullSchedule' = fullSchedule \o lastSim'.schedule
  /\ dates' = dates \o SegmentDates(addMonths(params.startDate, currentMonth),
                                    eventMonths[segment] - currentMonth + 1)
  /\ currentBalance' = lastSim'.finalBalance
  /\ currentCostBasis' = lastSim'.finalCostBasis
  /\ currentNominalCostBasis' = lastSim'.finalNominalCostBasis
  /\ currentMonth' = NextSegmentStart(eventMonths[segment])
  /\ segment' = segment + 1
  /\ calls' = [calls EXCEPT !.sim = @ + 1]
  /\ pc' = "loop"
  /\ UNCHANGED <<params, events, search, out>>

\* a month record whose balanceEnd is below the tolerance (line 293)
BelowTolerance(m) == m.balanceEnd < ToMoney(Tolerance)

\* line 290
TotalDeposited(schedule) ==
  Reduce([k \in DOMAIN schedule |-> schedule[k].deposit])
\* TotalWithdrawnNet summing the gross withdrawals
TotalWithdrawnGross(schedule) ==
  Reduce([k \in DOMAIN schedule |-> OrZero(schedule[k].withdrawalGross)])
\* line 291
TotalWithdrawnNet(schedule) ==
  Reduce([k \in DOMAIN schedule |-> OrZero(schedule[k].withdrawalNet)])
\* line 292
TotalTaxPaid(schedule) ==
  Reduce([k \in DOMAIN schedule |-> OrZero(schedule[k].taxPaid)])

\* lines 289-302: the totals and the result
Finish ==
  /\ pc = "loop"
  /\ segment > Len(eventMonths)
  /\ LET failed == \E k \in DOMAIN fullSchedule : BelowTolerance(fullSchedule[k])
     IN  out' = [success |-> ~failed, schedule |-> fullSchedule,
                 finalBalance |-> currentBalance,
                 totalDeposited |-> TotalDeposited(fullSchedule),
                 totalTaxPaid |-> TotalTaxPaid(fullSchedule),
                 totalWithdrawnNet |-> TotalWithdrawnNet(fullSchedule)]
  /\ pc' = "done"
  /\ UNCHANGED <<params, events, currentBalance, currentCostBasis,
                 currentNominalCostBasis, currentMonth, maxDepositConstraint,
                 fullSchedule, dates, segment, search, lastSim, actualDeposits,
                 requiredDeposits, segmentFailed, calls>>

Next ==
  \/ ReturnEmpty
  \/ BeginPlan
  \/ EnterSolve
  \/ SearchStep
  \/ RunSegment
  \/ Finish

Spec == Init /\ [][Next]_vars

\* =============================================================== properties
Done == pc = "done"
\* solveRequiredDeposit has finished its loop for the current segment
SolverReturned == pc = "search" /\ search.i = SearchIterations
Tol == ToMoney(Tolerance)

\* whether the lookahead simulation of the current solver call fails at deposit d
LookaheadFails(d) ==
  runSimulationPeriod(currentBalance, currentCostBasis, currentNominalCostBasis,
                      currentMonth, MaxOffsetOf(remainingEvents) - currentMonth + 1, d,
                      params, GroupByMonth(remainingEvents)).failed

\* whether the lookahead simulation over the whole plan, from month 0, fails at deposit d
PlanLookaheadFails(d) ==
  runSimulationPeriod(ToMoney(params.initialCapital), ToMoney(params.initialCapital),
                      ToMoney(params.initialCapital), 0, MaxOffsetOf(events) + 1, d,
                      params, eventsByMonth).failed

\* the number of input events due in month m
EventsAt(m) == Cardinality({i \in DOMAIN events : events[i].monthOffset = m})

\* ---- C1: when some constant deposit <= 1,000,000 funds all goals (the first
\* lookahead solve is not capped), the plan succeeds: every month record has
\* balanceEnd >= -1 and no segment run is marked failed (no withdrawal is taken from a
\* balance <= 0).
C1_Fundable ==
  /\ Len(events) > 0
  /\ \/ ~PlanLookaheadFails(ToMoney(maxDepositCap))
     \/ requiredDeposits[1] < ToMoney(maxDepositCap)

C1_PlanSucceeds ==
  (Done /\ C1_Fundable) =>
     /\ out.success
     /\ \A k \in DOMAIN out.schedule : out.schedule[k].balanceEnd >= Tol
     /\ \A n \in DOMAIN segmentFailed : ~segmentFailed[n]

C1_Witness ==
  /\ Done /\ C1_Fundable /\ out.success
  /\ Len(actualDeposits) = 2
  /\ params.capitalGainsTax > 0
  /\ out.totalTaxPaid > 0

\* ---- C2: the deposit is constant within a segment and never increases: consecutive
\* month records have deposit[k+1] <= deposit[k], and each segment's deposit is
\* min(required deposit, previous segment's deposit).
Min2(a, b) == IF a <= b THEN a ELSE b

C2_NonIncreasing ==
  /\ \A k \in 1 .. Len(fullSchedule) - 1 :
        fullSchedule[k + 1].deposit <= fullSchedule[k].deposit
  /\ \A n \in DOMAIN actualDeposits :
        actualDeposits[n] =
          IF n = 1 THEN requiredDeposits[1]
          ELSE Min2(requiredDeposits[n], actualDeposits[n - 1])
  /\ \A k \in DOMAIN fullSchedule :
        \E n \in DOMAIN actualDeposits :
           /\ fullSchedule[k].deposit = actualDeposits[n]
           /\ fullSchedule[k].monthIndex <= eventMonths[n]
           /\ (n > 1 => fullSchedule[k].monthIndex > eventMonths[n - 1])

C2_Witness ==
  /\ Done /\ Len(actualDeposits) = 2
  /\ actualDeposits[2] < actualDeposits[1]
  /\ Len(fullSchedule) = 3

\* ---- C3: for goals that some deposit in [0, 1,000,000] funds, solveRequiredDeposit
\* returns a multiple of 10, D, at which the lookahead simulation does not fail, minimal
\* up to the search's resolution: D is the smallest non-failing midpoint of the 20
\* halvings of [0, 1,000,000] (never 0) rounded up to a multiple of 10, so D >= 10, the
\* midpoint one grid step below the best one fails, and no multiple of 10 that is
\* <= D - 20 is sufficient (D - 10, or 0 when D = 10, may be).
C3_D == RoundUp(search.result)

C3_Applies ==
  /\ SolverReturned
  /\ Len(remainingEvents) > 0
  /\ (search.result < GridSteps \/ ~LookaheadFails(ToMoney(maxDepositCap)))

C3_MinimalUpToResolution ==
  C3_Applies =>
     /\ C3_D % ToMoney(RoundTo) = 0
     /\ C3_D >= ToMoney(RoundTo) /\ C3_D <= ToMoney(maxDepositCap)
     /\ ~LookaheadFails(C3_D)
     /\ C3_D >= GridToMoney(search.result)
     /\ C3_D - GridToMoney(search.result) < ToMoney(RoundTo)
     /\ (search.result > 1 => LookaheadFails(GridToMoney(search.result - 1)))
     /\ \A j \in {2, 3, 4} :
          C3_D >= ToMoney(j * RoundTo) => LookaheadFails(C3_D - ToMoney(j * RoundTo))
     /\ (C3_D >= ToMoney(2 * RoundTo) => LookaheadFails(0))

C3_Witness ==
  /\ C3_Applies
  /\ segment = 2
  /\ C3_D >= ToMoney(2 * RoundTo)
  /\ params.capitalGainsTax > 0

\* C3 as stated: no smaller multiple of 10 than the returned one, down to and including
\* 0, is sufficient
C3_Original ==
  C3_Applies =>
     /\ C3_D % ToMoney(RoundTo) = 0
     /\ ~LookaheadFails(C3_D)
     /\ (C3_D >= ToMoney(RoundTo) => LookaheadFails(C3_D - ToMoney(RoundTo)))
     /\ (C3_D > 0 => LookaheadFails(0))

\* ---- C4: every event is withdrawn exactly once, in the record of its own month, for
\* its target indexed by inflation from month 0 of the plan: a record's withdrawalNet is
\* the sum of targetAmount * (1 + monthlyInflation)^m over the events of its month m,
\* records of months with no event carry no withdrawal, and with no inflation the net
\* withdrawn is the raw target.
C4_IndexedTarget(e) ==
  MulDiv(ToMoney(e.targetAmount),
         PowFactor(getMonthlyRate(params.annualInflation), e.monthOffset), RateDen)

\* the indexed (or raw) targets of the first n input events that are due in month m
RECURSIVE C4_NetDue(_, _, _)
C4_NetDue(m, n, indexed) ==
  IF n = 0 THEN 0
  ELSE C4_NetDue(m, n - 1, indexed) +
       (IF events[n].monthOffset # m THEN 0
        ELSE IF indexed THEN C4_IndexedTarget(events[n])
        ELSE ToMoney(events[n].targetAmount))

C4_RecordNet(r) ==
  /\ OrZero(r.withdrawalNet) = C4_NetDue(r.monthIndex, Len(events), TRUE)
  /\ EventsAt(r.monthIndex) = 0 =>
       /\ r.withdrawalNet = Undefined /\ r.withdrawalGross = Undefined
       /\ r.eventOccurred = Undefined
  /\ params.annualInflation = 0 =>
       OrZero(r.withdrawalNet) = C4_NetDue(r.monthIndex, Len(events), FALSE)

C4_WithdrawnOnceIndexed ==
  /\ \A k \in DOMAIN fullSchedule : C4_RecordNet(fullSchedule[k])
  /\ Done =>
       /\ \A k \in DOMAIN out.schedule : C4_RecordNet(out.schedule[k])
       /\ \A n \in DOMAIN events :
            Cardinality({k \in DOMAIN out.schedule :
                           out.schedule[k].monthIndex = events[n].monthOffset}) = 1

\* a plan under inflation with an event in its second segment whose indexed target
\* exceeds the raw one
C4_Witness ==
  /\ Done /\ params.annualInflation > 0 /\ Len(eventMonths) = 2
  /\ \E k \in DOMAIN out.schedule :
        /\ out.schedule[k].monthIndex = eventMonths[2]
        /\ OrZero(out.schedule[k].withdrawalNet) >
             C4_NetDue(eventMonths[2], Len(events), FALSE)

\* ---- C5: when no deposit up to the cap is sufficient (every midpoint of the search
\* fails, and so does the cap), solveRequiredDeposit returns exactly 1,000,000 and the
\* plan reports success = false.
C5_FirstSolveInfeasible ==
  /\ Len(events) > 0
  /\ requiredDeposits # <<>>
  /\ requiredDeposits[1] = ToMoney(maxDepositCap)
  /\ PlanLookaheadFails(ToMoney(maxDepositCap))
  /\ PlanLookaheadFails(GridToMoney(GridSteps - 1))

C5_InfeasibleReported ==
  /\ (SolverReturned /\ Len(remainingEvents) > 0 /\ search.result = GridSteps)
        => RoundUp(search.result) = ToMoney(maxDepositCap)
  /\ (Done /\ C5_FirstSolveInfeasible) => ~out.success

\* the part of C5 about the solver alone
C5_SolverReturnsCap ==
  (SolverReturned /\ Len(remainingEvents) > 0 /\ LookaheadFails(ToMoney(maxDepositCap))
     /\ search.low = GridSteps - 1)
     => RoundUp(search.result) = ToMoney(maxDepositCap)

\* ---- C6: the tolerance is inclusive at -1 in the simulator and in the result: a
\* month-end balance of exactly -1 does not fail a run, one below -1 does, and the
\* failed flag of a run stays set once set.

C6_SimTolerance(sim) ==
  \A n \in DOMAIN sim.schedule :
     LET r == sim.schedule[n]
         before == IF n = 1 THEN FALSE ELSE sim.failedTrace[n - 1]
     IN  /\ before => sim.failedTrace[n]
         /\ r.balanceEnd < Tol => sim.failedTrace[n]
         /\ (~before /\ r.balanceEnd >= Tol /\ r.withdrawalGross = Undefined)
               => ~sim.failedTrace[n]
         /\ (~before /\ r.balanceEnd >= Tol /\ r.withdrawalGross # Undefined
               /\ EventsAt(r.monthIndex) = 1 /\ OrZero(r.preWithdrawalBalance) > 0)
               => ~sim.failedTrace[n]
         /\ n = Len(sim.schedule) => sim.failed = sim.failedTrace[n]

C6_WitnessResult ==
  /\ Done /\ out.success
  /\ \E k \in DOMAIN out.schedule : out.schedule[k].balanceEnd = Tol

\* a finished plan with a month-end balance of -2, reported failure
C6_WitnessBelow ==
  /\ Done /\ ~out.success
  /\ \E k \in DOMAIN out.schedule : out.schedule[k].balanceEnd = ToMoney(-2)

C8_Targets == {0, 101, 5000, 1000000, 1000001}

\* the solver's result from the current starting state for the one remaining goal with
\* its target replaced by t
C8_Required(t) ==
  solveRequiredDeposit(currentBalance, currentCostBasis, currentNominalCostBasis,
                       currentMonth,
                       <<[remainingEvents[1] EXCEPT !.targetAmount = t]>>, params)

\* the solver has returned for a single remaining goal: the only goal of the plan, or
\* the second of two
C8_SingleGoal == SolverReturned /\ Len(remainingEvents) = 1 /\ Len(events) <= 2

\* the pairs <<target, required deposit>> for the targets of C8_Targets and the goal's own
C8_Table ==
  { <<t, C8_Required(t)>> : t \in C8_Targets \cup {remainingEvents[1].targetAmount} }

C8_MonotoneOver(req) ==
  /\ <<remainingEvents[1].targetAmount, RoundUp(search.result)>> \in req
  /\ \A p, q \in req : p[1] <= q[1] => p[2] <= q[2]

C8_MonotoneInTarget == C8_SingleGoal => C8_MonotoneOver(C8_Table)

\* a single remaining goal whose required deposit lies strictly between those of a
\* smaller and of a larger target
C8_Witness ==
  /\ C8_SingleGoal
  /\ remainingEvents[1].targetAmount = 5000
  /\ C8_Required(101) < RoundUp(search.result)
  /\ RoundUp(search.result) < C8_Required(1000000)

\* ---- C9: for a non-empty event list (any input order, shared offsets or not) the
\* schedule has exactly one record per month from month 0 through the last event's month:
\* its length is maxOffset + 1 and its k-th record (from 0) has monthIndex k; no month is
\* skipped or duplicated at segment boundaries.
C9_Consecutive(schedule) ==
  \A k \in DOMAIN schedule : schedule[k].monthIndex = k - 1

C9_OneRecordPerMonth ==
  /\ C9_Consecutive(fullSchedule)
  /\ pc = "loop" => Len(fullSchedule) = currentMonth
  /\ (Done /\ events # <<>>) =>
       /\ Len(out.schedule) = MaxOffsetOf(events) + 1
       /\ C9_Consecutive(out.schedule)

\* a finished plan of two segments whose events were given latest first
C9_Witness ==
  /\ Done /\ Len(events) = 2 /\ Len(eventMonths) = 2
  /\ events[1].monthOffset > events[2].monthOffset
  /\ Len(out.schedule) = MaxOffsetOf(events) + 1
  /\ eventMonths[1] > 0

\* ---- C10: in the result, totalDeposited is the sum of the records' deposits,
\* totalWithdrawnNet the sum of their withdrawalNet fields, totalTaxPaid the sum of their
\* taxPaid fields (absent fields count 0), and success is true exactly when no record has
\* balanceEnd below -1.
RECURSIVE C10_Sum(_, _)
C10_Sum(field, n) ==
  IF n = 0 THEN 0
  ELSE C10_Sum(field, n - 1) +
       (IF field = "deposit" THEN out.schedule[n].deposit
        ELSE OrZero(out.schedule[n][field]))

C10_Totals ==
  (Done /\ events # <<>>) =>
     /\ out.totalDeposited = C10_Sum("deposit", Len(out.schedule))
     /\ out.totalWithdrawnNet = C10_Sum("withdrawalNet", Len(out.schedule))
     /\ out.totalTaxPaid = C10_Sum("taxPaid", Len(out.schedule))
     /\ out.success <=> (\A k \in DOMAIN out.schedule : out.schedule[k].balanceEnd >= Tol)

\* a finished plan with two withdrawal months, tax paid, and all three totals distinct
C10_Witness ==
  /\ Done /\ Len(eventMonths) = 2
  /\ out.totalTaxPaid > 0
  /\ out.totalWithdrawnNet > out.totalTaxPaid
  /\ out.totalDeposited > 0

\* ---- C11: both cost bases are <= the balance.  This holds of the nominal cost basis
\* when the return is >= 0, and of the real (inflation-indexed) cost basis when moreover
\* the return is >= the inflation, in every account state reached before any withdrawal
\* has exceeded the balance it was taken from (the balance has never been negative).
C11_NeverOverdrawn(schedule, k) == \A j \in 1 .. k : schedule[j].balanceEnd >= 0

C11_PlanNeverOverdrawn == C11_NeverOverdrawn(fullSchedule, Len(fullSchedule))

C11_RealApplies == params.annualReturn >= params.annualInflation

\* the states of one simulator run: the real basis after every month, both bases at
\* the end
C11_SimBases(sim) ==
  /\ \A k \in DOMAIN sim.schedule :
        (C11_NeverOverdrawn(sim.schedule, k) /\ C11_RealApplies)
           => sim.schedule[k].costBasis <= sim.schedule[k].balanceEnd
  /\ C11_NeverOverdrawn(sim.schedule, Len(sim.schedule)) =>
        /\ sim.finalNominalCostBasis <= sim.finalBalance
        /\ C11_RealApplies => sim.finalCostBasis <= sim.finalBalance

\* the account state n months into the lookahead span at the deposit the solver returns
C11_After(n) ==
  runSimulationPeriod(currentBalance, currentCostBasis, currentNominalCostBasis,
                      currentMonth, n, RoundUp(search.result), params,
                      GroupByMonth(remainingEvents))

C11_BasesBelowBalance ==
  (params.annualReturn >= 0 /\ C11_PlanNeverOverdrawn) =>
     /\ C11_SimBases(lastSim)
     /\ currentNominalCostBasis <= currentBalance
     /\ C11_RealApplies => currentCostBasis <= currentBalance
     /\ (SolverReturned /\ Len(remainingEvents) > 0) =>
          \A n \in 0 .. MaxOffsetOf(remainingEvents) - currentMonth + 1 :
             C11_SimBases(C11_After(n))

\* after a first segment that ended with a taxed withdrawal and money left over
C11_Witness ==
  /\ pc = "loop" /\ segment = 2 /\ C11_PlanNeverOverdrawn /\ C11_RealApplies
  /\ params.capitalGainsTax > 0
  /\ fullSchedule[Len(fullSchedule)].taxPaid # Undefined
  /\ currentCostBasis > 0 /\ currentCostBasis < currentBalance
  /\ currentNominalCostBasis > 0 /\ currentNominalCostBasis < currentBalance

\* C11 as stated: with a non-negative return both bases are <= the balance in every
\* account state
C11_Original ==
  params.annualReturn >= 0 =>
     /\ \A k \in DOMAIN lastSim.schedule :
           lastSim.schedule[k].costBasis <= lastSim.schedule[k].balanceEnd
     /\ lastSim.finalNominalCostBasis <= lastSim.finalBalance
     /\ lastSim.finalCostBasis <= lastSim.finalBalance
     /\ currentNominalCostBasis <= currentBalance
     /\ currentCostBasis <= currentBalance

\* a plan that succeeds without ever overdrawing the account, whose real cost basis
\* exceeds the balance
C11_RealBasisAboveBalance ==
  /\ Done /\ out.success /\ C11_PlanNeverOverdrawn
  /\ \A n \in DOMAIN segmentFailed : ~segmentFailed[n]
  /\ \E k \in DOMAIN out.schedule : out.schedule[k].costBasis > out.schedule[k].balanceEnd

\* ---- C12: every per-month failure condition feeds into the result: if a month of
\* some segment simulation run with the actual deposit is marked failed (a withdrawal
\* required from a balance <= 0, or a month-end balance below -1), success is false.
C12_FailureFeedsSuccess ==
  Done => ((\E n \in DOMAIN segmentFailed : segmentFailed[n]) => ~out.success)

\* the part that holds: a month-end balance below -1 in a segment makes success false
C12_BelowToleranceFeedsSuccess ==
  Done => ((\E k \in DOMAIN fullSchedule : fullSchedule[k].balanceEnd < Tol) => ~out.success)

\* ---- C13: events sharing a month are all processed in that month in list order
\* (input order among ties): the record's withdrawalGross, withdrawalNet, taxPaid,
\* realGain and nominalGain are the sums of the per-event values, each event's profit
\* ratios are computed on the balance and cost bases the previous event of the month
\* left, preWithdrawalBalance is the balance before the first, and eventOccurred is the
\* last event processed.
\* the input events due in month m, in input order
C13_Due(m) == SelectSeq(events, LAMBDA e : e.monthOffset = m)

\* one event withdrawn from the running account acc
C13_One(acc, e) ==
  LET net == C4_IndexedTarget(e)
      real == ProfitRatio(acc.costBasis, acc.balance)
      nominal == ProfitRatio(acc.nominalCostBasis, acc.balance)
      gross == GrossNeeded(net, real, params.capitalGainsTax)
  IN  [ balance |-> acc.balance - gross,
        costBasis |-> ReduceBasis(acc.costBasis, gross, acc.balance),
        nominalCostBasis |-> ReduceBasis(acc.nominalCostBasis, gross, acc.balance),
        gross |-> acc.gross + gross, net |-> acc.net + net,
        tax |-> acc.tax + (gross - net),
        realGain |-> acc.realGain + MulDiv(gross, real, RateDen),
        nominalGain |-> acc.nominalGain + MulDiv(gross, nominal, RateDen),
        last |-> Some(e.id) ]

RECURSIVE C13_Fold(_, _)
C13_Fold(acc, es) == IF es = <<>> THEN acc ELSE C13_Fold(C13_One(acc, Head(es)), Tail(es))

\* the account of the event month before its withdrawals, from the account state `before`
\* at the end of the previous month
C13_Pre(before, deposit) ==
  [ balance |-> Grow(before.finalBalance + deposit, getMonthlyRate(params.annualReturn)),
    costBasis |-> Grow(before.finalCostBasis + deposit, getMonthlyRate(params.annualInflation)),
    nominalCostBasis |-> before.finalNominalCostBasis + deposit,
    gross |-> 0, net |-> 0, tax |-> 0, realGain |-> 0, nominalGain |-> 0,
    last |-> Undefined ]

\* the record r of event month m agrees with the events of m withdrawn one after the
\* other from the account pre
C13_RecordIs(r, pre, acc) ==
  /\ r.balanceEnd = acc.balance /\ r.costBasis = acc.costBasis
  /\ r.eventOccurred = acc.last
  /\ OrZero(r.withdrawalGross) = acc.gross
  /\ OrZero(r.withdrawalNet) = acc.net
  /\ OrZero(r.taxPaid) = acc.tax
  /\ acc.gross > 0 =>
       /\ r.preWithdrawalBalance = Some(pre.balance)
       /\ r.realGain = Some(acc.realGain) /\ r.nominalGain = Some(acc.nominalGain)

C13_Agrees(r, pre) == C13_RecordIs(r, pre, C13_Fold(pre, C13_Due(r.monthIndex)))

\* the lookahead run from the current account state over n months at the returned deposit
C13_Run(n) ==
  runSimulationPeriod(currentBalance, currentCostBasis, currentNominalCostBasis,
                      currentMonth, n, RoundUp(search.result), params,
                      GroupByMonth(remainingEvents))

C13_FirstMonth == eventMonths[1]

C13_TiesInOrder ==
  /\ (SolverReturned /\ Len(remainingEvents) > 0) =>
        LET n == eventMonths[segment] - currentMonth + 1
        IN  C13_Agrees(C13_Run(n).schedule[n], C13_Pre(C13_Run(n - 1), RoundUp(search.result)))
  /\ (Len(fullSchedule) > 0) =>
        C13_Agrees(fullSchedule[C13_FirstMonth + 1],
                   C13_Pre(runSimulationPeriod(ToMoney(params.initialCapital),
                                               ToMoney(params.initialCapital),
                                               ToMoney(params.initialCapital), 0,
                                               C13_FirstMonth, actualDeposits[1], params,
                                               <<>>),
                           actualDeposits[1]))

\* two taxed events of different targets in the first event month, the larger given
\* first
C13_Witness ==
  /\ pc = "loop" /\ Len(fullSchedule) > 0 /\ Len(events) = 2
  /\ events[1].monthOffset = events[2].monthOffset
  /\ events[1].targetAmount > events[2].targetAmount
  /\ params.capitalGainsTax > 0 /\ events[1].monthOffset > 0
  /\ fullSchedule[C13_FirstMonth + 1].eventOccurred = Some(2)
  /\ fullSchedule[C13_FirstMonth + 1].taxPaid # Undefined
  /\ OrZero(fullSchedule[C13_FirstMonth + 1].withdrawalNet) =
       C4_IndexedTarget(events[1]) + C4_IndexedTarget(events[2])

\* ---- C14: a withdrawal reduces both cost bases by the same fraction as the balance
\* (basis' = basis * (1 - gross / preBalance) when the pre-withdrawal balance is > 0),
\* sets both to 0 when the pre-withdrawal balance is <= 0, and neither cost basis ever
\* becomes negative.
\* the lookahead run at the returned deposit through the next event month, when that
\* month has a single event: `after` is the account after the withdrawal, pre the one
\* before it
C14_Proportional(after, pre) ==
  IF pre.balance > 0
  THEN /\ after.finalCostBasis = MulDiv(pre.costBasis, after.finalBalance, pre.balance)
       /\ after.finalNominalCostBasis =
            MulDiv(pre.nominalCostBasis, after.finalBalance, pre.balance)
  ELSE after.finalCostBasis = 0 /\ after.finalNominalCostBasis = 0

C14_SingleEventNext ==
  /\ SolverReturned /\ Len(remainingEvents) > 0
  /\ Len(C13_Due(eventMonths[segment])) = 1

C14_ProportionalPart ==
  C14_SingleEventNext =>
     C14_Proportional(C13_Run(eventMonths[segment] - currentMonth + 1),
                      C13_Pre(C13_Run(eventMonths[segment] - currentMonth),
                              RoundUp(search.result)))

C14_NonNegativePart ==
  /\ \A k \in DOMAIN lastSim.schedule : lastSim.schedule[k].costBasis >= 0
  /\ lastSim.finalCostBasis >= 0 /\ lastSim.finalNominalCostBasis >= 0
  /\ currentCostBasis >= 0 /\ currentNominalCostBasis >= 0
  /\ Done => \A k \in DOMAIN out.schedule : out.schedule[k].costBasis >= 0

C14_ProportionalNonNegative == C14_ProportionalPart /\ C14_NonNegativePart

\* a returned plan with a negative cost basis in one of its records
C14_NegativeInResult ==
  Done /\ \E k \in DOMAIN out.schedule : out.schedule[k].costBasis < 0

\* ---- C15: gross = net / (1 - realProfitRatio * capitalGainsTax / 100) and
\* tax = gross - net: in every month with a withdrawal withdrawalGross = withdrawalNet +
\* tax and 0 <= tax <= gross * capitalGainsTax / 100; with capitalGainsTax = 0 the gross
\* equals the indexed net target whatever the profit ratio; and only the real cost
\* basis, never the nominal one, affects the tax.
C15_Records(sim, taxPercent) ==
  \A k \in DOMAIN sim.schedule :
     LET r == sim.schedule[k]
     IN  r.withdrawalGross # Undefined =>
           /\ OrZero(r.withdrawalGross) = OrZero(r.withdrawalNet) + OrZero(r.taxPaid)
           /\ OrZero(r.taxPaid) >= 0
           /\ OrZero(r.taxPaid) <= MulDiv(OrZero(r.withdrawalGross), taxPercent, 100)
           /\ taxPercent = 0 => r.withdrawalGross = r.withdrawalNet /\ r.taxPaid = Undefined

\* the lookahead run at the returned deposit under parameters p, started with the
\* nominal cost basis nominal
C15_Run(p, nominal) ==
  runSimulationPeriod(currentBalance, currentCostBasis, nominal, currentMonth,
                      MaxOffsetOf(remainingEvents) - currentMonth + 1,
                      RoundUp(search.result), p, GroupByMonth(remainingEvents))

\* the two runs withdraw, tax and leave the same amounts
C15_SameTax(a, b) ==
  /\ a.finalBalance = b.finalBalance /\ a.finalCostBasis = b.finalCostBasis
  /\ a.failed = b.failed
  /\ \A k \in DOMAIN a.schedule :
        /\ a.schedule[k].withdrawalGross = b.schedule[k].withdrawalGross
        /\ a.schedule[k].withdrawalNet = b.schedule[k].withdrawalNet
        /\ a.schedule[k].taxPaid = b.schedule[k].taxPaid
        /\ a.schedule[k].realGain = b.schedule[k].realGain
        /\ a.schedule[k].balanceEnd = b.schedule[k].balanceEnd

C15_Untaxed == [params EXCEPT !.capitalGainsTax = 0]

C15_GrossAndTax ==
  /\ C15_Records(lastSim, params.capitalGainsTax)
  /\ (SolverReturned /\ Len(remainingEvents) > 0) =>
       /\ C15_Records(C15_Run(C15_Untaxed, currentNominalCostBasis), 0)
       /\ C15_SameTax(C15_Run(params, currentNominalCostBasis), C15_Run(params, 0))
       /\ C15_SameTax(C15_Run(params, currentNominalCostBasis),
                      C15_Run(params, currentNominalCostBasis + ToMoney(RoundTo)))

\* a taxed withdrawal with a real profit, where the untaxed run withdraws less gross and
\* the run with another nominal basis reports another nominal gain but the same tax
C15_Witness ==
  /\ SolverReturned /\ Len(remainingEvents) > 0 /\ segment = 2
  /\ params.capitalGainsTax > 0 /\ currentBalance > 0
  /\ \E k \in DOMAIN C15_Run(params, 0).schedule :
        /\ C15_Run(params, 0).schedule[k].taxPaid # Undefined
        /\ OrZero(C15_Run(C15_Untaxed, 0).schedule[k].withdrawalGross) <
             OrZero(C15_Run(params, 0).schedule[k].withdrawalGross)
        /\ C15_Run(params, 0).schedule[k].nominalGain #
             C15_Run(params, currentNominalCostBasis + ToMoney(RoundTo)).schedule[k].nominalGain

\* the part of C15 that does not bound the tax from above: gross = net + tax with
\* tax >= 0 in the last simulator run
C15_SumPart ==
  \A k \in DOMAIN lastSim.schedule :
     lastSim.schedule[k].withdrawalGross # Undefined =>
        /\ OrZero(lastSim.schedule[k].withdrawalGross) =
             OrZero(lastSim.schedule[k].withdrawalNet) + OrZero(lastSim.schedule[k].taxPaid)
        /\ OrZero(lastSim.schedule[k].taxPaid) >= 0

\* a withdrawal taxed above gross * capitalGainsTax / 100
C15_TaxAboveRate ==
  \E k \in DOMAIN lastSim.schedule :
     OrZero(lastSim.schedule[k].taxPaid) >
       MulDiv(OrZero(lastSim.schedule[k].withdrawalGross), params.capitalGainsTax, 100)

\* ---- C16: a month record carries its optional withdrawal fields (eventOccurred,
\* withdrawalGross, withdrawalNet, taxPaid, preWithdrawalBalance, realGain,
\* nominalGain) exactly when a withdrawal occurred in that month. As stated (all seven
\* present in an event month, all absent otherwise) this is C16_Original; what holds
\* is C16_OptionalFields: all seven are absent in a month without an event; in an
\* event month eventOccurred is present, withdrawalGross, preWithdrawalBalance,
\* realGain and nominalGain are present together and exactly when the month's gross
\* withdrawal is > 0, withdrawalNet exactly when the month's net is > 0, and taxPaid
\* exactly when the month's tax (gross - net) is > 0.
C16_AllPresent(r) ==
  /\ r.eventOccurred # Undefined /\ r.withdrawalGross # Undefined
  /\ r.withdrawalNet # Undefined /\ r.taxPaid # Undefined
  /\ r.preWithdrawalBalance # Undefined /\ r.realGain # Undefined
  /\ r.nominalGain # Undefined

C16_AllAbsent(r) ==
  /\ r.eventOccurred = Undefined /\ r.withdrawalGross = Undefined
  /\ r.withdrawalNet = Undefined /\ r.taxPaid = Undefined
  /\ r.preWithdrawalBalance = Undefined /\ r.realGain = Undefined
  /\ r.nominalGain = Undefined

\* the fields of record r of an event month (every modelled target is > 0, so the month's
\* net total is > 0)
C16_EventMonth(r) ==
  /\ r.eventOccurred # Undefined
  /\ r.withdrawalNet # Undefined /\ OrZero(r.withdrawalNet) > 0
  /\ r.withdrawalGross # Undefined => OrZero(r.withdrawalGross) > 0
  /\ (r.preWithdrawalBalance # Undefined) = (r.withdrawalGross # Undefined)
  /\ (r.realGain # Undefined) = (r.withdrawalGross # Undefined)
  /\ (r.nominalGain # Undefined) = (r.withdrawalGross # Undefined)
  /\ r.withdrawalGross # Undefined =>
       (r.taxPaid # Undefined) = (OrZero(r.withdrawalGross) > OrZero(r.withdrawalNet))
  /\ r.taxPaid # Undefined =>
       /\ OrZero(r.taxPaid) > 0
       /\ OrZero(r.taxPaid) = OrZero(r.withdrawalGross) - OrZero(r.withdrawalNet)

C16_RecordOk(r) ==
  IF EventsAt(r.monthIndex) = 0 THEN C16_AllAbsent(r) ELSE C16_EventMonth(r)

C16_OptionalFields ==
  /\ \A k \in DOMAIN lastSim.schedule : C16_RecordOk(lastSim.schedule[k])
  /\ Done => \A k \in DOMAIN out.schedule : C16_RecordOk(out.schedule[k])

\* a returned plan with a month without an event (no optional field) and a withdrawal
\* month without tax (taxPaid absent, the six others present)
C16_Witness ==
  /\ Done /\ out.success
  /\ \E k \in DOMAIN out.schedule :
        EventsAt(out.schedule[k].monthIndex) = 0 /\ C16_AllAbsent(out.schedule[k])
  /\ \E k \in DOMAIN out.schedule :
        /\ out.schedule[k].taxPaid = Undefined
        /\ C16_AllPresent([out.schedule[k] EXCEPT !.taxPaid = Some(0)])

\* a returned plan with a month without an event and a taxed withdrawal month (all seven
\* present)
C16_WitnessTaxed ==
  /\ Done /\ out.success
  /\ \E k \in DOMAIN out.schedule : C16_AllAbsent(out.schedule[k])
  /\ \E k \in DOMAIN out.schedule : C16_AllPresent(out.schedule[k])

C16_Original ==
  Done => \A k \in DOMAIN out.schedule :
            IF EventsAt(out.schedule[k].monthIndex) > 0
            THEN C16_AllPresent(out.schedule[k])
            ELSE C16_AllAbsent(out.schedule[k])

\* ---- C17: account state is threaded forward without loss through the whole plan,
\* across segment boundaries and across the solver's trial runs: record 0 has
\* balanceStart = initialCapital, the balanceStart of record k+1 is the balanceEnd of
\* record k, between and during the solver calls the current balance and real cost
\* basis are those of the last record appended, a plan whose segments all use the same
\* deposit is, at every segment boundary and solver return, record for record (and in
\* its three final values) the single run over the same months at that deposit, and result.finalBalance is the balanceEnd of the
\* last record.
C17_Capital == ToMoney(params.initialCapital)

\* the schedule starts at balance start and each record starts where the previous ended
C17_Chained(schedule, start) ==
  \A k \in DOMAIN schedule :
     schedule[k].balanceStart = (IF k = 1 THEN start ELSE schedule[k - 1].balanceEnd)

\* one run from month 0 over the first n months at deposit d with all the events
C17_Whole(n, d) ==
  runSimulationPeriod(C17_Capital, C17_Capital, C17_Capital, 0, n, d, params,
                      eventsByMonth)

\* all the segments so far used the deposit of the first
C17_ConstantDeposit ==
  /\ Len(actualDeposits) > 0
  /\ \A n \in DOMAIN actualDeposits : actualDeposits[n] = actualDeposits[1]

\* the locals of calculateSavingsPlan are the final values of the run whole
C17_LocalsAre(whole) ==
  /\ currentBalance = whole.finalBalance
  /\ currentCostBasis = whole.finalCostBasis
  /\ currentNominalCostBasis = whole.finalNominalCostBasis
  /\ fullSchedule = whole.schedule

C17_InPlan ==
  /\ C17_Chained(fullSchedule, C17_Capital)
  /\ Len(fullSchedule) = currentMonth
  /\ IF fullSchedule = <<>>
     THEN /\ currentBalance = C17_Capital /\ currentCostBasis = C17_Capital
          /\ currentNominalCostBasis = C17_Capital
     ELSE /\ currentBalance = fullSchedule[Len(fullSchedule)].balanceEnd
          /\ currentCostBasis = fullSchedule[Len(fullSchedule)].costBasis
  /\ (C17_ConstantDeposit /\ (pc = "search" => search.i = SearchIterations)) =>
       C17_LocalsAre(C17_Whole(currentMonth, actualDeposits[1]))

C17_StateThreaded ==
  /\ pc \in {"loop", "search"} => C17_InPlan
  /\ (Done /\ Len(events) > 0) =>
       /\ C17_InPlan
       /\ out.schedule = fullSchedule
       /\ out.schedule[1].balanceStart = C17_Capital
       /\ out.finalBalance = out.schedule[Len(out.schedule)].balanceEnd

\* a returned plan of two segments at one deposit, whose second segment starts from a
\* balance and cost bases that differ from each other and from the capital
C17_Witness ==
  /\ Done /\ Len(actualDeposits) = 2 /\ C17_ConstantDeposit
  /\ Len(out.schedule) = 3
  /\ out.schedule[2].balanceStart # C17_Capital
  /\ out.schedule[1].costBasis # out.schedule[1].balanceEnd
  /\ out.schedule[3].nominalGain # Undefined
  /\ out.schedule[3].nominalGain # out.schedule[3].realGain

\* a trial run of the solver of a later segment, after which the locals are unchanged
C17_WitnessSearch ==
  /\ pc = "search" /\ segment = 2 /\ search.i > 0
  /\ lastSim.finalBalance # currentBalance
  /\ currentBalance # C17_Capital

\* ---- C18: in every month the deposit is applied before growth and growth before
\* any withdrawal. In a month without an event balanceEnd = (balanceStart + deposit) *
\* (1 + monthlyReturn), the real cost basis becomes (realCostBasis + deposit) *
\* (1 + monthlyInflation) and the nominal cost basis becomes nominalCostBasis + deposit;
\* in an event month the withdrawal is taken from these post-growth values:
\* preWithdrawalBalance = (balanceStart + deposit) * (1 + monthlyReturn) and
\* balanceEnd = preWithdrawalBalance - withdrawalGross.
C18_Grown(r) == Grow(r.balanceStart + r.deposit, getMonthlyRate(params.annualReturn))

\* record r, given the real cost basis the month started with
C18_RecordOk(r, basisBefore) ==
  IF EventsAt(r.monthIndex) = 0
  THEN /\ r.balanceEnd = C18_Grown(r)
       /\ r.costBasis = Grow(basisBefore + r.deposit, getMonthlyRate(params.annualInflation))
  ELSE /\ r.balanceEnd = C18_Grown(r) - OrZero(r.withdrawalGross)
       /\ r.withdrawalGross # Undefined => r.preWithdrawalBalance = Some(C18_Grown(r))

C18_ScheduleOk(schedule, startBasis) ==
  \A k \in DOMAIN schedule :
     C18_RecordOk(schedule[k], IF k = 1 THEN startBasis ELSE schedule[k - 1].costBasis)

\* the number of months from the current month to the first remaining event
C18_Quiet == remainingEvents[1].monthOffset - currentMonth

\* the run over the months before the first remaining event at the returned deposit
C18_QuietRun ==
  runSimulationPeriod(currentBalance, currentCostBasis, currentNominalCostBasis,
                      currentMonth, C18_Quiet, RoundUp(search.result), params,
                      GroupByMonth(remainingEvents))

C18_DepositGrowthWithdrawal ==
  /\ C18_ScheduleOk(fullSchedule, ToMoney(params.initialCapital))
  /\ (pc = "search" /\ search.i > 0) => C18_ScheduleOk(lastSim.schedule, currentCostBasis)
  /\ (SolverReturned /\ Len(remainingEvents) > 0) =>
       C18_QuietRun.finalNominalCostBasis =
         currentNominalCostBasis + C18_Quiet * RoundUp(search.result)

\* a returned plan with growth and inflation, a month without an event whose deposit has
\* grown, and an event month whose withdrawal exceeds the balance the month started with
\* (the month's own deposit and growth fund the goal)
C18_Witness ==
  /\ Done /\ out.success
  /\ params.annualReturn > 0 /\ params.annualInflation > 0
  /\ \E k \in DOMAIN out.schedule :
        /\ EventsAt(out.schedule[k].monthIndex) = 0
        /\ out.schedule[k].deposit > 0
        /\ out.schedule[k].balanceEnd > out.schedule[k].balanceStart + out.schedule[k].deposit
        /\ out.schedule[k].costBasis > out.schedule[k].deposit
  /\ \E k \in DOMAIN out.schedule :
        /\ out.schedule[k].withdrawalGross # Undefined
        /\ OrZero(out.schedule[k].withdrawalGross) > out.schedule[k].balanceStart
        /\ OrZero(out.schedule[k].preWithdrawalBalance) >
             out.schedule[k].balanceStart + out.schedule[k].deposit

\* the nominal cost basis after months without an event, at a positive deposit
C18_WitnessNominal ==
  /\ SolverReturned /\ Len(remainingEvents) > 0 /\ C18_Quiet > 0
  /\ RoundUp(search.result) > 0 /\ params.annualInflation > 0
  /\ C18_QuietRun.finalCostBasis > C18_QuietRun.finalNominalCostBasis

\* ---- C19: the date label of the month record with monthIndex k denotes the calendar
\* month exactly k months after the start date's month, for every start date (start
\* days 29-31 included) and every segmentation, so that consecutive records show
\* consecutive, distinct calendar months.
\* the calendar month k months after the month of date
C19_MonthAfter(date, k) ==
  [year |-> date.year + ((date.month + k) \div 12), month |-> (date.month + k) % 12]

C19_LabelsExact ==
  \A k \in DOMAIN dates : dates[k] = C19_MonthAfter(params.startDate, k - 1)

C19_Consecutive ==
  \A k \in DOMAIN dates :
     k > 1 => dates[k] = C19_MonthAfter([year |-> dates[k - 1].year,
                                         month |-> dates[k - 1].month], 1)

C19_DateLabels == C19_LabelsExact /\ C19_Consecutive

\* the labels are exact when the start day exists in every month
C19_EarlyStartDay == params.startDate.day <= 28 => C19_DateLabels

\* a returned plan of three months whose labels skip a calendar month
C19_SkippedMonth ==
  /\ Done /\ Len(dates) = 3
  /\ \E k \in 2 .. 3 : dates[k] = C19_MonthAfter(params.startDate, k)

\* a returned plan of two segments whose labels are exact, from a start day <= 28
C19_ExactWitness ==
  /\ Done /\ Len(dates) = 3 /\ Len(actualDeposits) = 2
  /\ params.startDate.day <= 28 /\ C19_DateLabels

====
